---- MODULE Spec2Model ----
(***************************************************************************)
(* pdf2epub: main.py as a state machine.                                   *)
(*                                                                         *)
(* Python strings are modelled as sequences of one-character strings, so   *)
(* that strip, splitlines, split, lower, join, splitext and basename are   *)
(* computed character by character as the library computes them.  Python's *)
(* None is None where a string may stand and NoneRec where an object may.  *)
(* The disk is split in two: pdfs (the input PDFs, never written by the    *)
(* program) and fs (the image and EPUB files the program reads and         *)
(* writes).                                                                *)
(***************************************************************************)
EXTENDS Integers, Sequences, FiniteSets, TLC

VARIABLES
    args,       \* the parsed command line (argparse namespace, main.py:227)
    pdfs,       \* the PDFs on disk: path -> what the PDF libraries see in it
    fs,         \* the other files on disk: path -> content
    pc,         \* the position of the (single) thread of control
    meta_dict,  \* main's meta_dict (main.py:230)
    idx,        \* index of the for-loop over args.input_files (main.py:239/258)
    frame,      \* the locals of the running convert_pdf_to_epub call
    log,        \* the records sent to the logger, in order
    calls,      \* history: one record per finished convert_pdf_to_epub call
    exit_code   \* the process's exit status ("0", "1"), "" while it runs

vars == <<args, pdfs, fs, pc, meta_dict, idx, frame, log, calls, exit_code>>

\* Python's None: no string is this sequence, strings being sequences of
\* single characters.
None == <<"None">>
NoneRec == [none |-> TRUE]

(***************************************************************************)
(* Bounds of the model.                                                    *)
(***************************************************************************)
MaxFiles == 2       \* input files on the command line
MaxPages == 2       \* pages of a PDF whose page texts are enumerated
MaxPageLen == 1     \* characters of a page text in a several-page PDF
MaxTextLen == 3     \* characters of the text of a one-page PDF
MaxMeta == 2        \* -m arguments

(***************************************************************************)
(* String literals of the program and of the inputs.                       *)
(***************************************************************************)
Placeholder ==
    <<"N", "o", " ", "t", "e", "x", "t", "u", "a", "l", " ", "c", "o", "n",
      "t", "e", "n", "t", " ", "c", "o", "u", "l", "d", " ", "b", "e", " ",
      "e", "x", "t", "r", "a", "c", "t", "e", "d", " ", "f", "r", "o", "m",
      " ", "t", "h", "i", "s", " ", "P", "D", "F", ".">>

DefaultCoverPath ==
    <<".", "/", "d", "a", "t", "a", "/", "c", "o", "v", "e", "r", ".", "j", "p", "g">>

EpubExt == <<".", "e", "p", "u", "b">>

sTitle == <<"t", "i", "t", "l", "e">>
sAuthor == <<"a", "u", "t", "h", "o", "r">>
sUnknown == <<"U", "n", "k", "n", "o", "w", "n">>

UpperCase ==
    <<"A", "B", "C", "D", "E", "F", "G", "H", "I", "J", "K", "L", "M",
      "N", "O", "P", "Q", "R", "S", "T", "U", "V", "W", "X", "Y", "Z">>
LowerCase ==
    <<"a", "b", "c", "d", "e", "f", "g", "h", "i", "j", "k", "l", "m",
      "n", "o", "p", "q", "r", "s", "t", "u", "v", "w", "x", "y", "z">>

\* The characters str.strip() removes (str.isspace), within the model's alphabet.
Whitespace == {" ", "\t", "\n", "\r", "\f"}
\* The characters str.splitlines() breaks at, within the model's alphabet.
LineBreaks == {"\n", "\r", "\f"}

(***************************************************************************)
(* Python's string and path functions, as the program uses them.           *)
(***************************************************************************)
Drop(s, n) == SubSeq(s, n + 1, Len(s))
Take(s, n) == SubSeq(s, 1, n)

\* Python truthiness of an optional string: None and "" are false.
Truthy(x) == x # None /\ x # <<>>

\* str.lower() on one character, then on a string.
lower_char(c) ==
    IF \E i \in 1..26 : UpperCase[i] = c
    THEN LowerCase[CHOOSE i \in 1..26 : UpperCase[i] = c]
    ELSE c
lower(s) == [i \in 1..Len(s) |-> lower_char(s[i])]

\* str.strip(): leading and trailing whitespace removed.
RECURSIVE lstrip(_)
lstrip(s) == IF s # <<>> /\ s[1] \in Whitespace THEN lstrip(Tail(s)) ELSE s
RECURSIVE rstrip(_)
rstrip(s) ==
    IF s # <<>> /\ s[Len(s)] \in Whitespace THEN rstrip(Take(s, Len(s) - 1)) ELSE s
strip(s) == rstrip(lstrip(s))

\* str.splitlines(): break at every line boundary, "\r\n" counting as one; the
\* boundaries are dropped and a boundary that ends the text opens no further line.
RECURSIVE splitlines(_)
splitlines(s) ==
    IF s = <<>> THEN <<>>
    ELSE LET brk == {k \in 1..Len(s) : s[k] \in LineBreaks}
             eol == IF brk = {} THEN Len(s) + 1
                    ELSE CHOOSE k \in brk : \A j \in brk : k <= j
             nxt == IF eol > Len(s) THEN eol
                    ELSE IF s[eol] = "\r" /\ eol < Len(s) /\ s[eol + 1] = "\n"
                         THEN eol + 2
                         ELSE eol + 1
         IN  <<Take(s, eol - 1)>> \o splitlines(Drop(s, nxt - 1))

\* "\n".join(parts)
RECURSIVE join(_, _)
join(sep, parts) ==
    IF parts = <<>> THEN <<>>
    ELSE IF Len(parts) = 1 THEN parts[1]
    ELSE parts[1] \o sep \o join(sep, Tail(parts))

\* os.path.basename(p): what follows the last "/".
basename(p) ==
    LET seps == {k \in 1..Len(p) : p[k] = "/"}
        last == IF seps = {} THEN 0 ELSE CHOOSE k \in seps : \A j \in seps : j <= k
    IN  Drop(p, last)

\* os.path.splitext(p): <<root, ext>>; ext starts at the last "." of the base
\* name unless only "."s precede it there.
splitext(p) ==
    LET seps == {k \in 1..Len(p) : p[k] = "/"}
        sepIndex == IF seps = {} THEN 0 ELSE CHOOSE k \in seps : \A j \in seps : j <= k
        dots == {k \in 1..Len(p) : p[k] = "."}
        dotIndex == IF dots = {} THEN 0 ELSE CHOOSE k \in dots : \A j \in dots : j <= k
    IN  IF dotIndex > sepIndex
           /\ \E k \in (sepIndex + 1)..(dotIndex - 1) : p[k] # "."
        THEN <<Take(p, dotIndex - 1), Drop(p, dotIndex - 1)>>
        ELSE <<p, <<>>>>

\* os.path.exists(path)
exists(disk, path) == path \in DOMAIN disk

(***************************************************************************)
(* main.py:229-235: the metadata mapping built from the -m arguments.  A   *)
(* Python dict is modelled as a sequence of <<key, value>> pairs in        *)
(* insertion order; assigning to a key that is present replaces its value  *)
(* and keeps its position.                                                 *)
(***************************************************************************)
dict_keys(d) == {d[i][1] : i \in 1..Len(d)}

\* dict.setdefault(k, v): a key that is present keeps its value.
dict_set_keeps_first(d, k, v) ==
    IF k \in dict_keys(d) THEN d ELSE Append(d, <<k, v>>)

dict_set(d, k, v) ==
    IF k \in dict_keys(d)
    THEN [i \in 1..Len(d) |-> IF d[i][1] = k THEN <<k, v>> ELSE d[i]]
    ELSE Append(d, <<k, v>>)

\* dict.get(key, default)
dict_get(d, k, default) ==
    IF k \in dict_keys(d)
    THEN d[CHOOSE i \in 1..Len(d) : d[i][1] = k][2]
    ELSE default

\* pair.split("=", 1) for a pair that holds "="
split_first(pair) ==
    LET eq == CHOOSE k \in 1..Len(pair) :
                  pair[k] = "=" /\ \A j \in 1..(k - 1) : pair[j] # "="
    IN  <<Take(pair, eq - 1), Drop(pair, eq)>>

RECURSIVE process_metadata(_, _)
process_metadata(d, pairs) ==
    IF pairs = <<>> THEN d
    ELSE LET pair == Head(pairs)
         IN  IF \E k \in 1..Len(pair) : pair[k] = "="
             THEN process_metadata(
                      dict_set(d, lower(split_first(pair)[1]), split_first(pair)[2]),
                      Tail(pairs))
             ELSE process_metadata(d, Tail(pairs))

(***************************************************************************)
(* What the libraries see in a PDF: whether PyMuPDF renders its first page *)
(* (renders), whether pypdf parses it (readable), whether it is encrypted  *)
(* and under which password, and the text extract_text() returns for each  *)
(* page (None or a string).  A path outside DOMAIN pdfs is a missing file. *)
(***************************************************************************)
Pdf(renders, readable, encrypted, password, pages) ==
    [renders |-> renders, readable |-> readable, encrypted |-> encrypted,
     password |-> password, pages |-> pages]

\* An image file: the caller's own picture, or page 0 of a PDF as rendered
\* by generate_cover_image.
CustomImage == [img |-> "custom", of |-> None]
RenderedImage(pdf_path) == [img |-> "page0", of |-> pdf_path]

LogRec(level, func, what, about) == <<level, func, what, about>>

(***************************************************************************)
(* main.py:21-44 generate_cover_image(pdf_path, output_path, dpi).         *)
(* Returns the value returned, the disk after the call and the records     *)
(* logged.  Every exception is caught inside (main.py:41-44).              *)
(***************************************************************************)
\* generate_cover_image returning its output path whether or not it rendered.
generate_cover_image_always_path(pdf_path, output_path, disk_pdfs, disk) ==
    IF pdf_path \in DOMAIN disk_pdfs /\ disk_pdfs[pdf_path].renders
    THEN [ret |-> output_path,
          fs |-> [q \in DOMAIN disk \cup {output_path} |->
                     IF q = output_path THEN RenderedImage(pdf_path) ELSE disk[q]],
          log |-> <<LogRec("INFO", "generate_cover_image", "generated", output_path)>>,
          raised |-> FALSE]
    ELSE [ret |-> output_path,
          fs |-> disk,
          log |-> <<LogRec("ERROR", "generate_cover_image", "failed", pdf_path),
                    LogRec("ERROR", "generate_cover_image", "traceback", pdf_path)>>,
          raised |-> FALSE]

generate_cover_image(pdf_path, output_path, disk_pdfs, disk) ==
    IF pdf_path \in DOMAIN disk_pdfs /\ disk_pdfs[pdf_path].renders
    THEN [ret |-> output_path,
          fs |-> [q \in DOMAIN disk \cup {output_path} |->
                     IF q = output_path THEN RenderedImage(pdf_path) ELSE disk[q]],
          log |-> <<LogRec("INFO", "generate_cover_image", "generated", output_path)>>,
          raised |-> FALSE]
    ELSE [ret |-> None,
          fs |-> disk,
          log |-> <<LogRec("ERROR", "generate_cover_image", "failed", pdf_path),
                    LogRec("ERROR", "generate_cover_image", "traceback", pdf_path)>>,
          raised |-> FALSE]

(***************************************************************************)
(* main.py:47-71 extract_pdf_text(pdf_path, password).                     *)
(***************************************************************************)
\* The page texts that are not None, empty ones included.
RECURSIVE kept_texts_not_none(_)
kept_texts_not_none(pages) ==
    IF pages = <<>> THEN <<>>
    ELSE IF Head(pages) # None
         THEN <<Head(pages)>> \o kept_texts_not_none(Tail(pages))
         ELSE kept_texts_not_none(Tail(pages))

\* main.py:57-61: the page texts that are truthy, in page order.
RECURSIVE kept_texts(_)
kept_texts(pages) ==
    IF pages = <<>> THEN <<>>
    ELSE IF Truthy(Head(pages)) THEN <<Head(pages)>> \o kept_texts(Tail(pages))
    ELSE kept_texts(Tail(pages))

\* main.py:53-59: whether opening, decrypting and reading every page raises nothing.
reads_all_pages(pdf_path, password, disk_pdfs) ==
    /\ pdf_path \in DOMAIN disk_pdfs
    /\ disk_pdfs[pdf_path].readable
    /\ \/ ~disk_pdfs[pdf_path].encrypted
       \/ Truthy(password) /\ password = disk_pdfs[pdf_path].password

\* extract_pdf_text without its try/except: a failure is raised to the caller.
extract_pdf_text_raises(pdf_path, password, disk_pdfs) ==
    IF reads_all_pages(pdf_path, password, disk_pdfs)
    THEN [ret |-> join(<<"\n">>, kept_texts(disk_pdfs[pdf_path].pages)),
          log |-> <<LogRec("INFO", "extract_pdf_text", "extracted", pdf_path)>>,
          raised |-> FALSE]
    ELSE [ret |-> None, log |-> <<>>, raised |-> TRUE]

extract_pdf_text(pdf_path, password, disk_pdfs) ==
    IF reads_all_pages(pdf_path, password, disk_pdfs)
    THEN [ret |-> join(<<"\n">>, kept_texts(disk_pdfs[pdf_path].pages)),
          log |-> <<LogRec("INFO", "extract_pdf_text", "extracted", pdf_path)>>,
          raised |-> FALSE]
    ELSE [ret |-> <<>>,
          log |-> <<LogRec("ERROR", "extract_pdf_text", "failed", pdf_path),
                    LogRec("ERROR", "extract_pdf_text", "traceback", pdf_path)>>,
          raised |-> FALSE]

(***************************************************************************)
(* main.py:74-141 create_epub_from_text: the EpubBook it returns and the   *)
(* records it logs.  chapters holds one entry per EpubHtml item added      *)
(* (main.py:100-110), each the sequence of its <p> strings; dc holds the   *)
(* fields attached by add_metadata (main.py:90-92), which appends.         *)
(***************************************************************************)
\* The placeholder substituted for the empty text only, not for blank text.
text_or_placeholder_empty_only(text_content) ==
    IF text_content = <<>> THEN Placeholder ELSE text_content

\* main.py:95-97
text_or_placeholder(text_content) ==
    IF strip(text_content) = <<>> THEN Placeholder ELSE text_content

\* str.split("\n") in place of str.splitlines()
RECURSIVE split_newline(_)
split_newline(s) ==
    IF \A k \in 1..Len(s) : s[k] # "\n" THEN <<s>>
    ELSE LET eol == CHOOSE k \in 1..Len(s) :
                        s[k] = "\n" /\ \A j \in 1..(k - 1) : s[j] # "\n"
         IN  <<Take(s, eol - 1)>> \o split_newline(Drop(s, eol))
paragraphs_split_newline(text_content) == split_newline(text_content)

\* main.py:103-107: one <p> per line of splitlines()
paragraphs(text_content) == splitlines(text_content)

\* main.py:90-92
dc_fields(metadata) ==
    IF metadata # <<>>
    THEN [i \in 1..Len(metadata) |-> <<"DC", metadata[i][1], metadata[i][2]>>]
    ELSE <<>>

\* main.py:118-120
cover_of(cover_image, disk) ==
    IF Truthy(cover_image) /\ exists(disk, cover_image)
    THEN [file_name |-> basename(cover_image), content |-> disk[cover_image]]
    ELSE NoneRec

create_epub_from_text(text_content, cover_image, title, author, metadata, disk) ==
    [ret |-> [identifier |-> "id_123456",
              title |-> title,
              language |-> "en",
              author |-> author,
              dc |-> dc_fields(metadata),
              chapters |-> <<paragraphs(text_or_placeholder(text_content))>>,
              toc |-> <<"content.xhtml">>,
              cover |-> cover_of(cover_image, disk),
              spine |-> <<"nav", "content.xhtml">>],
     log |-> IF strip(text_content) = <<>>
             THEN <<LogRec("WARNING", "create_epub_from_text", "placeholder", None)>>
             ELSE <<>>]

(***************************************************************************)
(* main.py:144-150 save_epub: the disk after write_epub succeeded.         *)
(***************************************************************************)
save_epub(book, output_path, disk) ==
    [q \in DOMAIN disk \cup {output_path} |->
        IF q = output_path THEN [epub |-> book] ELSE disk[q]]

(***************************************************************************)
(* main.py:161-164 and 176-182: the orchestrator's derivations.            *)
(***************************************************************************)
resolve_output(pdf_path, output_path) ==
    IF ~Truthy(output_path) THEN splitext(pdf_path)[1] \o EpubExt ELSE output_path

\* The default title taken without the file's extension.
derive_title_stem(pdf_path, metadata) ==
    IF metadata # <<>>
    THEN dict_get(metadata, sTitle, splitext(basename(pdf_path))[1])
    ELSE splitext(basename(pdf_path))[1]

derive_title(pdf_path, metadata) ==
    IF metadata # <<>> THEN dict_get(metadata, sTitle, basename(pdf_path))
    ELSE basename(pdf_path)

derive_author(metadata) ==
    IF metadata # <<>> THEN dict_get(metadata, sAuthor, sUnknown) ELSE sUnknown

(***************************************************************************)
(* main.py:237-265: which branch of main's dispatch runs, and the          *)
(* output_path it passes.                                                  *)
(***************************************************************************)
\* The dispatch with --output refused whenever --batch is set.
dispatch_branch_nonbatch(a) ==
    IF a.batch /\ Len(a.input_files) > 1 THEN "batch"
    ELSE IF Len(a.input_files) = 1 /\ Truthy(a.output) /\ ~a.batch THEN "single"
    ELSE "loop"

dispatch_branch(a) ==
    IF a.batch /\ Len(a.input_files) > 1 THEN "batch"
    ELSE IF Len(a.input_files) = 1 /\ Truthy(a.output) THEN "single"
    ELSE "loop"

NoFrame ==
    [pdf_path |-> None, output_path |-> None, password |-> None,
     custom_cover |-> None, metadata |-> <<>>, generated |-> FALSE,
     cover_image |-> None, text_content |-> None, title |-> None,
     author |-> None, book |-> NoneRec, exc |-> "", saved |-> FALSE]

\* The call convert_pdf_to_epub(pdf_file, output_path=out, password=args.password,
\* custom_cover=args.thumbnail, metadata=meta_dict): control enters the try block.
EnterConvert(pdf_file, out) ==
    /\ frame' = [NoFrame EXCEPT !.pdf_path = pdf_file, !.output_path = out,
                                !.password = args.password,
                                !.custom_cover = args.thumbnail,
                                !.metadata = meta_dict]
    /\ pc' = "resolve"
    /\ UNCHANGED <<args, pdfs, fs, meta_dict, idx, log, calls, exit_code>>

(***************************************************************************)
(* main                                                                    *)
(***************************************************************************)
\* main.py:229-235.  args.metadata is None or a non-empty list (nargs="+"):
\* the empty sequence stands for None.
ProcessMetadata ==
    /\ pc = "main"
    /\ meta_dict' = IF args.metadata # <<>>
                    THEN process_metadata(<<>>, args.metadata)
                    ELSE <<>>
    /\ pc' = "dispatch"
    /\ UNCHANGED <<args, pdfs, fs, idx, frame, log, calls, exit_code>>

\* main.py:238-246
BatchConvert ==
    /\ pc = "dispatch"
    /\ dispatch_branch(args) = "batch"
    /\ idx <= Len(args.input_files)
    /\ EnterConvert(args.input_files[idx], None)

\* main.py:249-256
SingleConvert ==
    /\ pc = "dispatch"
    /\ dispatch_branch(args) = "single"
    /\ idx = 1
    /\ EnterConvert(args.input_files[1], args.output)

\* main.py:257-265
LoopConvert ==
    /\ pc = "dispatch"
    /\ dispatch_branch(args) = "loop"
    /\ idx <= Len(args.input_files)
    /\ EnterConvert(args.input_files[idx], None)

\* main returns (main.py:265-269): the interpreter exits with status 0.
Exit ==
    /\ pc = "dispatch"
    /\ idx > Len(args.input_files)
    /\ pc' = "done"
    /\ exit_code' = "0"
    /\ UNCHANGED <<args, pdfs, fs, meta_dict, idx, frame, log, calls>>

(***************************************************************************)
(* convert_pdf_to_epub, main.py:153-198, step by step.                     *)
(***************************************************************************)
\* main.py:161-164
ResolveOutput ==
    /\ pc = "resolve"
    /\ frame' = [frame EXCEPT
                   !.output_path = resolve_output(frame.pdf_path, frame.output_path)]
    /\ pc' = "cover"
    /\ UNCHANGED <<args, pdfs, fs, meta_dict, idx, log, calls, exit_code>>

\* main.py:167
custom_cover_usable(custom_cover, disk) ==
    Truthy(custom_cover) /\ exists(disk, custom_cover)

\* main.py:167-169
UseCustomCover ==
    /\ pc = "cover"
    /\ custom_cover_usable(frame.custom_cover, fs)
    /\ frame' = [frame EXCEPT !.cover_image = frame.custom_cover]
    /\ log' = Append(log, LogRec("INFO", "convert_pdf_to_epub", "custom cover",
                                 frame.custom_cover))
    /\ pc' = "extract"
    /\ UNCHANGED <<args, pdfs, fs, meta_dict, idx, calls, exit_code>>

\* main.py:170-171
GenerateCover ==
    /\ pc = "cover"
    /\ ~custom_cover_usable(frame.custom_cover, fs)
    /\ LET r == generate_cover_image(frame.pdf_path, DefaultCoverPath, pdfs, fs)
       IN  /\ fs' = r.fs
           /\ log' = log \o r.log
           /\ IF r.raised
              THEN /\ frame' = [frame EXCEPT !.generated = TRUE,
                                             !.exc = "generate_cover_image"]
                   /\ pc' = "except"
              ELSE /\ frame' = [frame EXCEPT !.generated = TRUE,
                                             !.cover_image = r.ret]
                   /\ pc' = "extract"
    /\ UNCHANGED <<args, pdfs, meta_dict, idx, calls, exit_code>>

\* main.py:174
ExtractText ==
    /\ pc = "extract"
    /\ LET r == extract_pdf_text(frame.pdf_path, frame.password, pdfs)
       IN  /\ log' = log \o r.log
           /\ IF r.raised
              THEN /\ frame' = [frame EXCEPT !.exc = "extract_pdf_text"]
                   /\ pc' = "except"
              ELSE /\ frame' = [frame EXCEPT !.text_content = r.ret]
                   /\ pc' = "assemble"
    /\ UNCHANGED <<args, pdfs, fs, meta_dict, idx, calls, exit_code>>

\* main.py:176-191: title, author, and the book as create_epub_from_text returns it.
Assemble ==
    /\ pc = "assemble"
    /\ LET title == derive_title(frame.pdf_path, frame.metadata)
           author == derive_author(frame.metadata)
           r == create_epub_from_text(frame.text_content, frame.cover_image,
                                      title, author, frame.metadata, fs)
       IN  /\ frame' = [frame EXCEPT !.title = title, !.author = author,
                                     !.book = r.ret]
           /\ log' = log \o r.log
    /\ pc' = "save"
    /\ UNCHANGED <<args, pdfs, fs, meta_dict, idx, calls, exit_code>>

\* main.py:185-191: create_epub_from_text raises (the cover file cannot be
\* opened or read at main.py:119-120, or the packaging library fails).
AssembleRaises ==
    /\ pc = "assemble"
    /\ frame' = [frame EXCEPT !.title = derive_title(frame.pdf_path, frame.metadata),
                              !.author = derive_author(frame.metadata),
                              !.exc = "create_epub_from_text"]
    /\ pc' = "except"
    /\ UNCHANGED <<args, pdfs, fs, meta_dict, idx, log, calls, exit_code>>

\* main.py:194, write_epub succeeds
SaveEpub ==
    /\ pc = "save"
    /\ fs' = save_epub(frame.book, frame.output_path, fs)
    /\ frame' = [frame EXCEPT !.saved = TRUE]
    /\ log' = Append(log, LogRec("INFO", "save_epub", "saved", frame.output_path))
    /\ pc' = "return"
    /\ UNCHANGED <<args, pdfs, meta_dict, idx, calls, exit_code>>

\* main.py:194, write_epub raises: before anything is written (unwritable
\* path), or part-way (disk error), leaving a truncated file at output_path.
SaveRaises ==
    /\ pc = "save"
    /\ \E truncated \in BOOLEAN :
          fs' = IF truncated
                THEN [q \in DOMAIN fs \cup {frame.output_path} |->
                         IF q = frame.output_path THEN [truncated |-> TRUE] ELSE fs[q]]
                ELSE fs
    /\ frame' = [frame EXCEPT !.exc = "save_epub"]
    /\ pc' = "except"
    /\ UNCHANGED <<args, pdfs, meta_dict, idx, log, calls, exit_code>>

\* CatchAll without the except clause: the exception leaves
\* convert_pdf_to_epub and main, and the interpreter exits with status 1.
CatchAll_reraises ==
    /\ pc = "except"
    /\ pc' = "done"
    /\ exit_code' = "1"
    /\ UNCHANGED <<args, pdfs, fs, meta_dict, idx, frame, log, calls>>

\* main.py:196-198: the catch-all of convert_pdf_to_epub.
CatchAll ==
    /\ pc = "except"
    /\ log' = log \o <<LogRec("ERROR", "convert_pdf_to_epub", "failed", frame.pdf_path),
                       LogRec("ERROR", "convert_pdf_to_epub", "traceback", frame.pdf_path)>>
    /\ pc' = "return"
    /\ UNCHANGED <<args, pdfs, fs, meta_dict, idx, frame, calls, exit_code>>

\* convert_pdf_to_epub returns to main, which goes on with its loop.
Return ==
    /\ pc = "return"
    /\ calls' = Append(calls, frame)
    /\ frame' = NoFrame
    /\ idx' = idx + 1
    /\ pc' = "dispatch"
    /\ UNCHANGED <<args, pdfs, fs, meta_dict, log, exit_code>>

Next ==
    \/ ProcessMetadata
    \/ BatchConvert
    \/ SingleConvert
    \/ LoopConvert
    \/ Exit
    \/ ResolveOutput
    \/ UseCustomCover
    \/ GenerateCover
    \/ ExtractText
    \/ Assemble
    \/ AssembleRaises
    \/ SaveEpub
    \/ SaveRaises
    \/ CatchAll
    \/ Return

(***************************************************************************)
(* The inputs: command lines and disks.                                    *)
(***************************************************************************)
\* All strings over alphabet of at most n characters.
Strings(alphabet, n) == UNION {[1..k -> alphabet] : k \in 0..n}
\* All sequences over S of lo..hi elements.
SeqsOf(S, lo, hi) == UNION {[1..k -> S] : k \in lo..hi}

pA == <<"a", ".", "p", "d", "f">>               \* a.pdf
pB == <<"d", "/", "b", ".", "p", "d", "f">>     \* d/b.pdf
pX == <<"a", ".", "x">>                         \* a.x
pC == <<"d", ".", "e", "/", ".", "c">>          \* d.e/.c
InputPaths == {pA, pB, pX, pC}

sPw == <<"p", "w">>
sCustomOut == <<"o", ".", "e">>                 \* o.e
sThumb == <<"t", ".", "j", "p", "g">>           \* t.jpg
sMobyDick == <<"M", "o", "b", "y", " ", "D", "i", "c", "k">>
sMelville == <<"M", "e", "l", "v", "i", "l", "l", "e">>

\* The disk of the multi-file runs: a.pdf is a sound two-page PDF with one
\* empty page between; d/b.pdf is corrupted (it neither renders nor parses);
\* a.x is encrypted under "pw" and does not render; d.e/.c is a scan, whose
\* pages render and hold no text.
DiskPdfs ==
    [p \in InputPaths |->
        CASE p = pA -> Pdf(TRUE, TRUE, FALSE, None,
                           <<<<"h", "i">>, None, <<"b", "\n", "c">>>>)
          [] p = pB -> Pdf(FALSE, FALSE, FALSE, None, <<>>)
          [] p = pX -> Pdf(FALSE, TRUE, TRUE, sPw, <<<<"s">>>>)
          [] p = pC -> Pdf(TRUE, TRUE, FALSE, None, <<None, <<>>>>)]

\* key=value arguments of -m
MetaPairs ==
    { sTitle \o <<"=">> \o sMobyDick,                       \* title=Moby Dick
      <<"A", "u", "t", "h", "o", "r", "=">> \o sMelville,   \* Author=Melville
      <<"T", "I", "T", "L", "E", "=", "x">>,                \* TITLE=x
      <<"k">>,                                              \* k
      <<"k", "=", "a", "=", "b">>,                          \* k=a=b
      <<"k", "=">>,                                         \* k=
      <<"=", "v">> }                                        \* =v

\* -t and the image files on disk before the run
Thumbnails ==
    { <<None, <<>>>>,
      <<sThumb, (sThumb :> CustomImage)>>,
      <<DefaultCoverPath, <<>>>>,
      <<DefaultCoverPath, (DefaultCoverPath :> CustomImage)>> }

Args(input_files, output, batch, password, thumbnail, metadata) ==
    [input_files |-> input_files, output |-> output, batch |-> batch,
     password |-> password, thumbnail |-> thumbnail, metadata |-> metadata]

\* The state when main starts (main.py:227, after parse_args).
Start(a, disk_pdfs, disk) ==
    /\ args = a
    /\ pdfs = disk_pdfs
    /\ fs = disk
    /\ pc = "main"
    /\ meta_dict = <<>>
    /\ idx = 1
    /\ frame = NoFrame
    /\ log = <<>>
    /\ calls = <<>>
    /\ exit_code = ""

\* Runs over one file of DiskPdfs, under every flag combination.
InitSingle ==
    \E file \in InputPaths,
       output \in {None, <<>>, sCustomOut},
       batch \in BOOLEAN,
       password \in {None, sPw},
       th \in Thumbnails,
       metadata \in {<<>>, <<sTitle \o <<"=">> \o sMobyDick,
                             sAuthor \o <<"=">> \o sMelville>>} :
        Start(Args(<<file>>, output, batch, password, th[1], metadata), DiskPdfs, th[2])

\* Runs over several files of DiskPdfs, in every order, repetitions included.
InitFiles ==
    \E files \in SeqsOf(InputPaths, 2, MaxFiles),
       output \in {None, sCustomOut},
       batch \in BOOLEAN,
       password \in {None, sPw},
       th \in Thumbnails :
        Start(Args(files, output, batch, password, th[1], <<>>), DiskPdfs, th[2])

sLine1 == <<"l", "i", "n", "e", "1">>
sLine2 == <<"l", "i", "n", "e", "2">>
sLine1Line2 == sLine1 \o <<"\n">> \o sLine2      \* "line1\nline2"

TextAlphabet == {"a", " ", "\n", "\r"}
PageAlphabet == {"a", "\n"}

\* Runs over one PDF whose page texts are enumerated: one page of any text of
\* up to MaxTextLen characters, or up to MaxPages pages of short texts.
InitText ==
    \E pages \in {<<t>> : t \in Strings(TextAlphabet, MaxTextLen)}
                 \cup {<<sLine1Line2>>}
                 \cup SeqsOf({None} \cup Strings(PageAlphabet, MaxPageLen), 0, MaxPages) :
        Start(Args(<<pA>>, None, FALSE, None, None, <<>>),
              (pA :> Pdf(TRUE, TRUE, FALSE, None, pages)), <<>>)

\* Runs over one PDF under every list of -m arguments.
InitMeta ==
    \E metadata \in SeqsOf(MetaPairs, 1, MaxMeta), file \in {pA, pC} :
        Start(Args(<<file>>, None, FALSE, None, None, metadata), DiskPdfs, <<>>)

Init == InitSingle \/ InitFiles \/ InitText \/ InitMeta

Spec == Init /\ [][Next]_vars

(***************************************************************************)
(* Properties.                                                             *)
(***************************************************************************)
\* The finished calls and, once it has reached its return, the running one.
Finished == IF pc = "return" THEN Append(calls, frame) ELSE calls

Renders(p) == p \in DOMAIN pdfs /\ pdfs[p].renders
\* Cover rendering was attempted on the call's file and failed.
CoverFailed(c) == c.generated /\ ~Renders(c.pdf_path)
\* Text extraction failed on the call's file.
ExtractFailed(c) == ~reads_all_pages(c.pdf_path, c.password, pdfs)
Logged(level, func, about) ==
    \E i \in 1..Len(log) : log[i][1] = level /\ log[i][2] = func /\ log[i][4] = about
AssemblyOrWriteRaised(c) == c.exc \in {"create_epub_from_text", "save_epub"}

\* out is path with its extension replaced by ".epub": path = root \o ext, where
\* ext is empty or is the last "." of the base name and what follows it, that
\* "." having a character other than "." before it in the base name.
DerivedFrom(path, out) ==
    \E k \in 0..Len(path) :
        LET root == SubSeq(path, 1, k)
            ext == SubSeq(path, k + 1, Len(path))
            InBase(j) == \A m \in j..Len(path) : path[m] # "/"
            IsExtAt(j) ==
                /\ path[j] = "." /\ InBase(j)
                /\ \A m \in (j + 1)..Len(path) : path[m] # "."
                /\ \E m \in 1..(j - 1) : InBase(m) /\ path[m] # "."
        IN  /\ out = root \o EpubExt
            /\ IF ext = <<>>
               THEN \A j \in 1..Len(path) : ~IsExtAt(j)
               ELSE IsExtAt(k + 1)

(***************************************************************************)
(* C1.  Whatever the input files, the flags and the failures, no exception *)
(* leaves convert_pdf_to_epub: a raised exception is caught and the call    *)
(* returns to main, the calls made are the input files in command-line     *)
(* order, after each call, failed or not, the next file is attempted or,   *)
(* none being left, main returns, and when the run has ended every file    *)
(* has been attempted and the exit status is 0.                            *)
(***************************************************************************)
C1_NeverRaisesToMain ==
    /\ exit_code \in {"", "0"}
    /\ pc = "except" => ENABLED CatchAll
    /\ pc = "return" => ENABLED Return
    /\ Len(calls) <= Len(args.input_files)
    /\ \A i \in 1..Len(calls) : calls[i].pdf_path = args.input_files[i]
    /\ pc = "dispatch" /\ Len(calls) < Len(args.input_files) =>
          ENABLED (BatchConvert \/ SingleConvert \/ LoopConvert)
    /\ pc = "dispatch" /\ Len(calls) = Len(args.input_files) => ENABLED Exit
    /\ pc = "done" => exit_code = "0" /\ Len(calls) = Len(args.input_files)

\* A run that ended after its first file failed and its second was attempted.
C1_Witness ==
    /\ pc = "done" /\ exit_code = "0"
    /\ Len(calls) = 2
    /\ calls[1].exc # "" /\ ~calls[1].saved
    /\ calls[2].saved

(***************************************************************************)
(* C2.  A batch run over several files of which one is corrupted          *)
(* (rendering and extraction both fail on it) and the others valid (both   *)
(* succeed): a valid file ends with its EPUB written unless assembly or    *)
(* write raised, and the corrupted file logs an error.                     *)
(***************************************************************************)
BatchRun == args.batch /\ Len(args.input_files) > 1
ValidFile(c) == Renders(c.pdf_path) /\ ~ExtractFailed(c)
CorruptedFile(c) == ~Renders(c.pdf_path) /\ ExtractFailed(c)
ErrorLoggedFor(c) ==
    /\ Logged("ERROR", "extract_pdf_text", c.pdf_path)
    /\ c.generated => Logged("ERROR", "generate_cover_image", c.pdf_path)
ValidFilesProduce ==
    \A i \in 1..Len(calls) :
        ValidFile(calls[i]) /\ ~AssemblyOrWriteRaised(calls[i]) =>
            /\ calls[i].saved
            /\ exists(fs, calls[i].output_path)

OneCorruptedFile ==
    \E j \in 1..Len(calls) :
        /\ CorruptedFile(calls[j])
        /\ \A i \in 1..Len(calls) : i # j => ValidFile(calls[i])

\* C2 as claimed: ... and the corrupted file produces no output file.
C2_CorruptedNoOutput ==
    pc = "done" /\ BatchRun /\ OneCorruptedFile =>
        /\ ValidFilesProduce
        /\ \A i \in 1..Len(calls) :
              CorruptedFile(calls[i]) =>
                  ErrorLoggedFor(calls[i]) /\ ~calls[i].saved

\* C2 as amended: ... and the corrupted file, too, ends with an EPUB written
\* unless assembly or write raised: one holding the placeholder paragraph and,
\* when the cover was to be rendered from it, no cover.
C2_CorruptedPlaceholderEpub ==
    pc = "done" /\ BatchRun /\ OneCorruptedFile =>
        /\ ValidFilesProduce
        /\ \A i \in 1..Len(calls) :
              CorruptedFile(calls[i]) =>
                  /\ ErrorLoggedFor(calls[i])
                  /\ ~AssemblyOrWriteRaised(calls[i]) =>
                        /\ calls[i].saved
                        /\ exists(fs, calls[i].output_path)
                        /\ calls[i].book.chapters = <<<<Placeholder>>>>
                        /\ calls[i].generated => calls[i].book.cover = NoneRec

\* A batch run that ended with a valid and a corrupted file both written.
C2_Witness ==
    /\ pc = "done" /\ BatchRun /\ OneCorruptedFile
    /\ \E i, j \in 1..Len(calls) :
          /\ ValidFile(calls[i]) /\ calls[i].saved
          /\ CorruptedFile(calls[j]) /\ calls[j].generated /\ calls[j].saved
          /\ fs[calls[j].output_path] = [epub |-> calls[j].book]

(***************************************************************************)
(* C3.  Which invocations write to the --output path and which to the path *)
(* derived from the input.                                                 *)
(***************************************************************************)
\* On return from a call that saved, the book is on disk at its output_path.
WrittenWhereResolved ==
    pc = "return" /\ frame.saved => fs[frame.output_path] = [epub |-> frame.book]

\* C3 as claimed: --output is honoured with one input file and no --batch, and
\* is not used, each output being derived, with several files or with --batch.
C3_OutputOnlyNonBatch ==
    /\ WrittenWhereResolved
    /\ \A i \in 1..Len(Finished) :
          LET c == Finished[i]
          IN  /\ (Len(args.input_files) = 1 /\ Truthy(args.output) /\ ~args.batch)
                    => c.output_path = args.output
              /\ (Len(args.input_files) > 1 \/ args.batch)
                    => DerivedFrom(c.pdf_path, c.output_path)

\* C3 as amended: --output is honoured with one input file and a non-empty
\* --output, with or without --batch; in every other invocation each output
\* is derived from its input.
C3_OutputWheneverSingle ==
    /\ WrittenWhereResolved
    /\ \A i \in 1..Len(Finished) :
          LET c == Finished[i]
          IN  IF Len(args.input_files) = 1 /\ Truthy(args.output)
              THEN c.output_path = args.output
              ELSE DerivedFrom(c.pdf_path, c.output_path)

\* One file, --batch and --output: the EPUB is on disk at the --output path,
\* which is not the derived one.
C3_Witness ==
    /\ pc = "return" /\ frame.saved
    /\ args.batch /\ Len(args.input_files) = 1 /\ args.output = sCustomOut
    /\ fs[sCustomOut] = [epub |-> frame.book]
    /\ ~DerivedFrom(frame.pdf_path, sCustomOut)

(***************************************************************************)
(* C4.  A failed cover rendering gives cover_image None and a failed text  *)
(* extraction gives the empty text, neither raising; the call goes on to   *)
(* assembly and write, and unless one of those two raises the EPUB is      *)
(* written, without cover after a failed rendering and with the            *)
(* placeholder paragraph after a failed extraction.                        *)
(***************************************************************************)
C4_SoftFailures ==
    \A i \in 1..Len(Finished) :
        LET c == Finished[i]
        IN  /\ c.exc \in {"", "create_epub_from_text", "save_epub"}
            /\ CoverFailed(c) => c.cover_image = None
            /\ ExtractFailed(c) => c.text_content = <<>>
            /\ c.exc = "" =>
                  /\ c.saved
                  /\ CoverFailed(c) => c.book.cover = NoneRec
                  /\ ExtractFailed(c) => c.book.chapters = <<<<Placeholder>>>>

\* A call on which rendering and extraction both failed, a cover file of an
\* earlier call lying at the shared path, has written its EPUB.
C4_Witness ==
    /\ pc = "return" /\ frame.saved
    /\ CoverFailed(frame) /\ ExtractFailed(frame)
    /\ exists(fs, DefaultCoverPath)
    /\ fs[frame.output_path] = [epub |-> frame.book]
    /\ frame.book.cover = NoneRec

\* Every call made so far, the running one last; a call has assembled its
\* book once its book is not NoneRec.
Frames == Append(calls, frame)
Assembled(c) == c.book # NoneRec

(***************************************************************************)
(* C5.  Every assembled book has exactly one chapter, of at least one      *)
(* paragraph, and spine [nav, chapter]; when the text is empty or made of  *)
(* whitespace only, newlines included, the chapter is the one placeholder  *)
(* paragraph.                                                              *)
(***************************************************************************)
C5_NeverZeroParagraphs ==
    \A i \in 1..Len(Frames) :
        LET c == Frames[i]
        IN  Assembled(c) =>
              /\ Len(c.book.chapters) = 1
              /\ Len(c.book.chapters[1]) >= 1
              /\ c.book.spine = <<"nav", c.book.toc[1]>>
              /\ (\A k \in 1..Len(c.text_content) : c.text_content[k] \in Whitespace)
                    => c.book.chapters[1] = <<Placeholder>>

\* A book assembled from a text of newlines and other whitespace only.
C5_Witness ==
    /\ Assembled(frame)
    /\ Len(frame.text_content) >= 2
    /\ \A k \in 1..Len(frame.text_content) : frame.text_content[k] \in Whitespace
    /\ \E k \in 1..Len(frame.text_content) : frame.text_content[k] = "\n"
    /\ frame.book.chapters = <<<<Placeholder>>>>

(***************************************************************************)
(* C6.  The book's title is the mapping's "title" entry if there is one    *)
(* and the input's base name (what follows its last "/") otherwise; its    *)
(* author is the mapping's "author" entry if there is one and "Unknown"    *)
(* otherwise.                                                              *)
(***************************************************************************)
IsBaseNameOf(b, path) ==
    /\ \A k \in 1..Len(b) : b[k] # "/"
    /\ \E k \in 0..Len(path) :
          /\ SubSeq(path, k + 1, Len(path)) = b
          /\ k = 0 \/ path[k] = "/"

C6_TitleAuthor ==
    \A i \in 1..Len(Frames) :
        LET c == Frames[i]
            Has(key) == \E k \in 1..Len(c.metadata) : c.metadata[k][1] = key
        IN  Assembled(c) =>
              /\ \A k \in 1..Len(c.metadata) :
                    /\ c.metadata[k][1] = sTitle => c.book.title = c.metadata[k][2]
                    /\ c.metadata[k][1] = sAuthor => c.book.author = c.metadata[k][2]
              /\ ~Has(sTitle) => IsBaseNameOf(c.book.title, c.pdf_path)
              /\ ~Has(sAuthor) => c.book.author = sUnknown

\* d.e/.c converted under title=Moby Dick author=Melville and written.
C6_Witness ==
    /\ pc = "return" /\ frame.saved /\ frame.pdf_path = pC
    /\ frame.metadata = <<<<sTitle, sMobyDick>>, <<sAuthor, sMelville>>>>
    /\ fs[frame.output_path].epub.title = sMobyDick
    /\ fs[frame.output_path].epub.author = sMelville

(***************************************************************************)
(* C7.  When every page of the PDF is read without an exception, the text  *)
(* extracted is the non-empty page texts laid end to end in page order,    *)
(* exactly one "\n" between two consecutive ones and nothing else: page k, *)
(* if kept, stands at the offset that the kept pages before it and their   *)
(* separators add up to.                                                   *)
(***************************************************************************)
KeptPage(t) == t # None /\ Len(t) > 0
\* Characters the kept pages before page k occupy, one separator after each.
RECURSIVE OffsetOfPage(_, _)
OffsetOfPage(pages, k) ==
    IF k = 1 THEN 0
    ELSE OffsetOfPage(pages, k - 1)
         + (IF KeptPage(pages[k - 1]) THEN Len(pages[k - 1]) + 1 ELSE 0)

IsJoinOfKeptPages(text, pages) ==
    LET n == Len(pages)
        anyKept == \E k \in 1..n : KeptPage(pages[k])
    IN  /\ Len(text) = IF anyKept THEN OffsetOfPage(pages, n + 1) - 1 ELSE 0
        /\ \A k \in 1..n :
              KeptPage(pages[k]) =>
                  LET off == OffsetOfPage(pages, k)
                  IN  /\ SubSeq(text, off + 1, off + Len(pages[k])) = pages[k]
                      /\ (\E m \in (k + 1)..n : KeptPage(pages[m]))
                            => text[off + Len(pages[k]) + 1] = "\n"

C7_JoinOfKeptPages ==
    \A i \in 1..Len(Frames) :
        LET c == Frames[i]
        IN  c.text_content # None /\ ~ExtractFailed(c) =>
                IsJoinOfKeptPages(c.text_content, pdfs[c.pdf_path].pages)

\* A text extracted from pages of which a skipped one lies between two kept.
C7_Witness ==
    /\ pc = "assemble"
    /\ LET pages == pdfs[frame.pdf_path].pages
       IN  \E k \in 2..(Len(pages) - 1) :
              /\ ~KeptPage(pages[k])
              /\ KeptPage(pages[k - 1]) /\ KeptPage(pages[k + 1])
              /\ frame.text_content = pages[k - 1] \o <<"\n">> \o pages[k + 1]

(***************************************************************************)
(* C8.  For a text that is not blank the chapter holds one paragraph per   *)
(* line, in order, each the line's content: the j-th paragraph is the text *)
(* between the (j-1)-th and the j-th line boundary, and what follows the   *)
(* last boundary, if anything does, is the last paragraph.  A boundary is  *)
(* a line-break character, "\r\n" being one boundary.                      *)
(***************************************************************************)
BoundaryStarts(t) ==
    {k \in 1..Len(t) : t[k] \in LineBreaks /\ ~(t[k] = "\n" /\ k > 1 /\ t[k - 1] = "\r")}
BoundaryEnd(t, b) ==
    IF t[b] = "\r" /\ b < Len(t) /\ t[b + 1] = "\n" THEN b + 1 ELSE b
\* The j-th smallest element of the set of numbers B.
Nth(B, j) == CHOOSE b \in B : Cardinality({x \in B : x < b}) = j - 1

IsOneParagraphPerLine(ps, t) ==
    LET B == BoundaryStarts(t)
        m == Cardinality(B)
        lastEnd == IF m = 0 THEN 0 ELSE BoundaryEnd(t, Nth(B, m))
        From(j) == IF j = 1 THEN 1 ELSE BoundaryEnd(t, Nth(B, j - 1)) + 1
    IN  /\ Len(ps) = m + (IF lastEnd < Len(t) THEN 1 ELSE 0)
        /\ \A j \in 1..m : ps[j] = SubSeq(t, From(j), Nth(B, j) - 1)
        /\ lastEnd < Len(t) => ps[m + 1] = SubSeq(t, lastEnd + 1, Len(t))

C8_OneParagraphPerLine ==
    \A i \in 1..Len(Frames) :
        LET c == Frames[i]
        IN  Assembled(c) /\ (\E k \in 1..Len(c.text_content) :
                                 c.text_content[k] \notin Whitespace) =>
                IsOneParagraphPerLine(c.book.chapters[1], c.text_content)

\* "line1\nline2" assembled into the two paragraphs "line1" and "line2".
C8_Witness ==
    /\ Assembled(frame)
    /\ frame.text_content = sLine1Line2
    /\ frame.book.chapters[1] = <<sLine1, sLine2>>

(***************************************************************************)
(* C9.  The Dublin-Core fields the book gets from the -m arguments.        *)
(***************************************************************************)
HasEq(pair) == \E k \in 1..Len(pair) : pair[k] = "="
FirstEq(pair) ==
    CHOOSE k \in 1..Len(pair) : pair[k] = "=" /\ \A j \in 1..(k - 1) : pair[j] # "="
KeyOf(pair) == lower(SubSeq(pair, 1, FirstEq(pair) - 1))
ValueOf(pair) == SubSeq(pair, FirstEq(pair) + 1, Len(pair))
PairsWithEq == SelectSeq(args.metadata, HasEq)

\* C9 as claimed: every pair holding "=" is attached, under its lower-cased
\* key, entries of one key all retained.
C9_AllPairsRetained ==
    \A i \in 1..Len(Frames) :
        Assembled(Frames[i]) =>
            Frames[i].book.dc =
                [j \in 1..Len(PairsWithEq) |->
                    <<"DC", KeyOf(PairsWithEq[j]), ValueOf(PairsWithEq[j])>>]

\* C9 as amended: every pair holding "=" is attached under its lower-cased
\* key, pairs without "=" are ignored, and of the pairs of one lower-cased
\* key the last alone gives the value: one field per key.
C9_LastPairPerKey ==
    \A i \in 1..Len(Frames) :
        LET dc == Frames[i].book.dc
            W == PairsWithEq
        IN  Assembled(Frames[i]) =>
              /\ \A j \in 1..Len(W) : \E k \in 1..Len(dc) : dc[k][2] = KeyOf(W[j])
              /\ \A k \in 1..Len(dc) :
                    /\ dc[k][1] = "DC"
                    /\ \E j \in 1..Len(W) :
                          /\ KeyOf(W[j]) = dc[k][2]
                          /\ ValueOf(W[j]) = dc[k][3]
                          /\ \A m \in (j + 1)..Len(W) : KeyOf(W[m]) # dc[k][2]
              /\ \A k1, k2 \in 1..Len(dc) : dc[k1][2] = dc[k2][2] => k1 = k2

\* Two -m pairs of one lower-cased key and different values: one field, the
\* second pair's value.
C9_Witness ==
    /\ Assembled(frame)
    /\ Len(args.metadata) = 2
    /\ HasEq(args.metadata[1]) /\ HasEq(args.metadata[2])
    /\ KeyOf(args.metadata[1]) = KeyOf(args.metadata[2])
    /\ ValueOf(args.metadata[1]) # ValueOf(args.metadata[2])
    /\ frame.book.dc = <<<<"DC", KeyOf(args.metadata[2]), ValueOf(args.metadata[2])>>>>

(***************************************************************************)
(* C10.  In a run over several files, the cover of the book assembled for  *)
(* a file is absent, or the caller's own picture, or the first page of     *)
(* that very file: never the page rendered from another input file.        *)
(***************************************************************************)
C10_NoCoverOfAnotherFile ==
    \A i \in 1..Len(Frames) :
        LET c == Frames[i]
        IN  Len(args.input_files) > 1 /\ Assembled(c) =>
              \/ c.book.cover = NoneRec
              \/ c.book.cover.content = CustomImage
              \/ c.book.cover.content = RenderedImage(c.pdf_path)

====
